---------------------------- MODULE Spec2Model ----------------------------
(***************************************************************************)
(* A model of cloudness: the angle-unit trigonometry helpers               *)
(* (utils/trigonometric_functions.py), the leap-year rule                  *)
(* (utils/is_leap_year.py) and the Irradiance class                        *)
(* (global_irradiance/irradiance.py).                                      *)
(*                                                                         *)
(* Floating-point numbers are fixed-point integers: the float v is the     *)
(* integer round(v * Scale).  The three IEEE values no finite number       *)
(* stands for are the integers NaN, PosInf and NegInf, outside the finite  *)
(* range -Huge .. Huge; a finite result beyond that range is clamped to    *)
(* +-Huge (numpy's tan(deg2rad(90)) is 1.6e16, a finite number).           *)
(***************************************************************************)
EXTENDS Integers, Sequences, FiniteSets

(***************************************************************************)
(* Fixed-point arithmetic                                                  *)
(***************************************************************************)
Scale == 1000

Huge == 100000000

PosInf == 1000000000

NegInf == -1000000000

NaN == 2000000000

IsNaN(a) == a = NaN

IsInf(a) == a = PosInf \/ a = NegInf

Abs(a) == IF a < 0 THEN -a ELSE a

Sign(a) == IF a < 0 THEN -1 ELSE IF a > 0 THEN 1 ELSE 0

Clamp(a) == IF a > Huge THEN Huge ELSE IF a < -Huge THEN -Huge ELSE a

\* n / d rounded to the nearest integer, halves away from zero (d > 0).
RoundDiv(n, d) ==
    IF n >= 0 THEN (2 * n + d) \div (2 * d)
    ELSE -((2 * (-n) + d) \div (2 * d))

\* The float -a.
FNeg(a) == IF IsNaN(a) THEN NaN
           ELSE IF a = PosInf THEN NegInf
           ELSE IF a = NegInf THEN PosInf
           ELSE -a

\* The float a + b.
FAdd(a, b) ==
    IF IsNaN(a) \/ IsNaN(b) THEN NaN
    ELSE IF IsInf(a) /\ IsInf(b) THEN (IF a = b THEN a ELSE NaN)
    ELSE IF IsInf(a) THEN a
    ELSE IF IsInf(b) THEN b
    ELSE Clamp(a + b)

\* The float a * b.  A finite product too large for the range is +-Huge.
\* The larger factor is split at the scale so that no step leaves 32 bits.
FMul(a, b) ==
    IF IsNaN(a) \/ IsNaN(b) THEN NaN
    ELSE IF IsInf(a) \/ IsInf(b)
         THEN (IF a = 0 \/ b = 0 THEN NaN
               ELSE IF Sign(a) * Sign(b) > 0 THEN PosInf ELSE NegInf)
    ELSE LET hi == IF Abs(a) >= Abs(b) THEN Abs(a) ELSE Abs(b)
             lo == IF Abs(a) >= Abs(b) THEN Abs(b) ELSE Abs(a)
             hq == hi \div Scale
             hr == hi % Scale
         IN  IF lo = 0 THEN 0
             ELSE IF hq > 0 /\ lo > (Huge \div hq)
                  THEN Sign(a) * Sign(b) * Huge
             ELSE Sign(a) * Sign(b)
                    * Clamp(hq * lo + RoundDiv(hr * lo, Scale))

\* The float a / b for a finite b # 0.
FDiv(a, b) ==
    IF IsNaN(a) THEN NaN
    ELSE IF IsInf(a) THEN (IF Sign(a) * Sign(b) > 0 THEN PosInf ELSE NegInf)
    ELSE LET q == Abs(a) \div Abs(b)
             r == Abs(a) % Abs(b)
         IN  IF q > (Huge \div Scale) THEN Sign(a) * Sign(b) * Huge
             ELSE IF Abs(b) <= 1000000
                  THEN Sign(a) * Sign(b)
                         * Clamp(q * Scale + RoundDiv(r * Scale, Abs(b)))
             ELSE Sign(a) * Sign(b)
                    * Clamp(q * Scale + RoundDiv(r, Abs(b) \div Scale))

\* a < b and a > b on floats: false when either is nan.
FLt(a, b) == ~IsNaN(a) /\ ~IsNaN(b) /\ a < b

FGt(a, b) == ~IsNaN(a) /\ ~IsNaN(b) /\ a > b

\* The float of the Python int n.
FromInt(n) == n * Scale


\* The float x * num / den for positive integers num and den.
Ratio(x, num, den) ==
    IF IsNaN(x) \/ IsInf(x) THEN x
    ELSE IF Abs(x) <= (PosInf \div num) THEN Clamp(RoundDiv(x * num, den))
    ELSE IF (Abs(x) \div den) > (Huge \div num) THEN Sign(x) * Huge
    ELSE Sign(x) * Clamp((Abs(x) \div den) * num)

(***************************************************************************)
(* numpy's functions, on fixed-point radians.  pi is 355/113.              *)
(***************************************************************************)
PiNum == 355

PiDen == 113

Pi == RoundDiv(PiNum * Scale, PiDen)

HalfPi == RoundDiv(PiNum * Scale, 2 * PiDen)

\* np.pi
np_pi == Pi

\* np.deg2rad(x): x * pi / 180
np_deg2rad(x) == Ratio(x, PiNum, 180 * PiDen)

\* np.rad2deg(x): x * 180 / pi
np_rad2deg(x) == Ratio(x, 180 * PiDen, PiNum)

\* x less a whole number of turns, in -Pi .. Pi.
ReduceAngle(x) ==
    IF Abs(x) <= Pi THEN x
    ELSE IF Abs(x) <= 8000000
         THEN LET k == RoundDiv(PiDen * x, 2 * PiNum * Scale)
              IN  x - RoundDiv(k * 2 * PiNum * Scale, PiDen)
    ELSE ((x + Pi) % (2 * Pi)) - Pi

\* The angle of the same sine in -HalfPi .. HalfPi.
FoldAngle(r) ==
    IF r > HalfPi THEN Pi - r
    ELSE IF r < -HalfPi THEN -Pi - r
    ELSE r

\* sin(r) for r in -HalfPi .. HalfPi: r - r^3/3! + r^5/5! - r^7/7! + r^9/9!,
\* the terms kept to two more decimal places than the result.
SinSeries(r) ==
    LET r2 == RoundDiv(r * r, Scale)
        t1 == r * 100
        t3 == RoundDiv(t1 * r2, 6 * Scale)
        t5 == RoundDiv(t3 * r2, 20 * Scale)
        t7 == RoundDiv(t5 * r2, 42 * Scale)
        t9 == RoundDiv(t7 * r2, 72 * Scale)
    IN  RoundDiv(t1 - t3 + t5 - t7 + t9, 100)

\* np.sin(x), x in radians
np_sin(x) ==
    IF IsNaN(x) \/ IsInf(x) THEN NaN
    ELSE SinSeries(FoldAngle(ReduceAngle(x)))

\* np.cos(x), x in radians
np_cos(x) ==
    IF IsNaN(x) \/ IsInf(x) THEN NaN
    ELSE SinSeries(FoldAngle(ReduceAngle(x + HalfPi)))

\* np.tan(x), x in radians.  Where the cosine is below the resolution the
\* tangent is the largest finite number, as in floating point.
np_tan(x) ==
    IF IsNaN(x) \/ IsInf(x) THEN NaN
    ELSE LET s == np_sin(x)
             c == np_cos(x)
         IN  IF c = 0 THEN Sign(s) * Huge ELSE FDiv(s, c)

\* The least angle t in lo+1 .. hi with cos(t) <= y, given cos(lo) > y and
\* cos(hi) <= y (the cosine falls on 0 .. Pi).
RECURSIVE CosFirstAtMost(_, _, _)
CosFirstAtMost(lo, hi, y) ==
    IF hi - lo <= 1 THEN hi
    ELSE LET mid == (lo + hi) \div 2
         IN  IF np_cos(mid) <= y THEN CosFirstAtMost(lo, mid, y)
             ELSE CosFirstAtMost(mid, hi, y)

\* np.arccos(x), in radians: nan outside [-1, 1].
np_arccos(x) ==
    IF IsNaN(x) \/ IsInf(x) THEN NaN
    ELSE IF x > Scale \/ x < -Scale THEN NaN
    ELSE IF x = Scale THEN 0
    ELSE IF x = -Scale THEN Pi
    ELSE LET first == CosFirstAtMost(0, Pi, x)
             next  == CosFirstAtMost(0, Pi, x - 1)
         IN  (first + next - 1) \div 2

\* np.arcsin(x), in radians: nan outside [-1, 1].
np_arcsin(x) ==
    IF IsNaN(x) \/ IsInf(x) THEN NaN
    ELSE IF x > Scale \/ x < -Scale THEN NaN
    ELSE HalfPi - np_arccos(x)

\* The least angle t in lo+1 .. hi with tan(t) >= y, given tan(lo) < y and
\* tan(hi) >= y (the tangent rises on -HalfPi .. HalfPi).
RECURSIVE TanFirstAtLeast(_, _, _)
TanFirstAtLeast(lo, hi, y) ==
    IF hi - lo <= 1 THEN hi
    ELSE LET mid == (lo + hi) \div 2
         IN  IF np_tan(mid) >= y THEN TanFirstAtLeast(lo, mid, y)
             ELSE TanFirstAtLeast(mid, hi, y)

\* np.arctan(x), in radians: +-pi/2 at +-inf.
np_arctan(x) ==
    IF IsNaN(x) THEN NaN
    ELSE IF x = PosInf \/ x >= Huge THEN HalfPi
    ELSE IF x = NegInf \/ x <= -Huge THEN -HalfPi
    ELSE LET first == TanFirstAtLeast(-HalfPi, HalfPi, x)
             next  == TanFirstAtLeast(-HalfPi, HalfPi, x + 1)
         IN  (first + next - 1) \div 2

(***************************************************************************)
(* What a call gives: a value, or the exception it raises.                 *)
(***************************************************************************)
Returned(v) == [status |-> "ok", value |-> v]

Raised(e, msg) == [status |-> e, message |-> msg]

(***************************************************************************)
(* utils/trigonometric_functions.py                                        *)
(***************************************************************************)
tf_sin(x, angle_in_degrees) ==
    LET x1 == IF angle_in_degrees THEN np_deg2rad(x) ELSE x
    IN  np_sin(x1)

tf_cos(x, angle_in_degrees) ==
    LET x1 == IF angle_in_degrees THEN np_deg2rad(x) ELSE x
    IN  np_cos(x1)

tf_tan(x, angle_in_degrees) ==
    LET x1 == IF angle_in_degrees THEN np_deg2rad(x) ELSE x
    IN  np_tan(x1)

tf_arcsin(x, angle_in_degrees) ==
    LET result == np_arcsin(x)
    IN  IF angle_in_degrees THEN np_rad2deg(result) ELSE result

tf_arccos(x, angle_in_degrees) ==
    LET result == np_arccos(x)
    IN  IF angle_in_degrees THEN np_rad2deg(result) ELSE result

tf_arctan(x, angle_in_degrees) ==
    LET result == np_arctan(x)
    IN  IF angle_in_degrees THEN np_rad2deg(result) ELSE result

\* The types an argument x: float arrives as: Python's built-in float, or
\* numpy's float64 (a subclass of float, and what sin, cos and tan return).
FloatTypes == {"float", "numpy.float64"}

\* The expression 1 / x.  A built-in float zero raises ZeroDivisionError;
\* a numpy.float64 zero gives inf (and a RuntimeWarning, which is no error).
Reciprocal(x, xtype) ==
    IF IsNaN(x) THEN Returned(NaN)
    ELSE IF IsInf(x) THEN Returned(0)
    ELSE IF x = 0
         THEN (IF xtype = "float"
               THEN Raised("ZeroDivisionError", "float division by zero")
               ELSE Returned(PosInf))
    ELSE Returned(FDiv(FromInt(1), x))

\* A variant of tf_arccot that drops the caller's flag: arctan(1 / x)
tf_arccot_default_flag(x, xtype, angle_in_degrees) ==
    LET inv == Reciprocal(x, xtype)
    IN  IF inv.status # "ok" THEN inv
        ELSE Returned(tf_arctan(inv.value, TRUE))

tf_arccot(x, xtype, angle_in_degrees) ==
    LET inv == Reciprocal(x, xtype)
    IN  IF inv.status # "ok" THEN inv
        ELSE Returned(tf_arctan(inv.value, angle_in_degrees))

tf_arcsec(x, xtype, angle_in_degrees) ==
    LET inv == Reciprocal(x, xtype)
    IN  IF inv.status # "ok" THEN inv
        ELSE Returned(tf_arccos(inv.value, angle_in_degrees))

tf_arccsc(x, xtype, angle_in_degrees) ==
    LET inv == Reciprocal(x, xtype)
    IN  IF inv.status # "ok" THEN inv
        ELSE Returned(tf_arcsin(inv.value, angle_in_degrees))

(***************************************************************************)
(* utils/is_leap_year.py                                                   *)
(***************************************************************************)
\* A variant of is_leap_year without the 400-year exception
is_leap_year_no400(year) ==
    IF year < 0 THEN Raised("ValueError", "Year must be a positive integer.")
    ELSE Returned(year % 4 = 0 /\ year % 100 # 0)

is_leap_year(year) ==
    IF year < 0 THEN Raised("ValueError", "Year must be a positive integer.")
    ELSE Returned(year % 4 = 0 /\ (year % 100 # 0 \/ year % 400 = 0))

(***************************************************************************)
(* global_irradiance/irradiance.py                                         *)
(*                                                                         *)
(* A formula call gives Computed(value, steps) or RaisedDay(...): steps    *)
(* lists, in order, what the call did: its range check, each nested        *)
(* formula call with that call's own steps, each trigonometric call.       *)
(***************************************************************************)
Computed(v, steps) == [status |-> "ok", value |-> v, steps |-> steps]

\* A variant of RaisedDay with the two arguments in the other order
RaisedDay_swapped(by, day_of_year, ndays, steps) ==
    [status |-> "DayOfYearError", day_of_year |-> ndays,
     ndays |-> day_of_year, raised_by |-> by, steps |-> steps]

\* raise DayOfYearError(day_of_year, ndays), in method `by`
RaisedDay(by, day_of_year, ndays, steps) ==
    [status |-> "DayOfYearError", day_of_year |-> day_of_year,
     ndays |-> ndays, raised_by |-> by, steps |-> steps]

\* An exception of a nested call passes through the caller, which had done
\* `before` when it made the call.
Propagated(r, before) == [r EXCEPT !.steps = before \o r.steps]

\* A variant of Irradiance_init that refuses the latitudes -90 and 90
Irradiance_init_strict(latitude, year) ==
    IF ~FGt(latitude, FromInt(-90)) \/ ~FLt(latitude, FromInt(90))
    THEN Raised("ValueError", "Latitude must be between -90 and 90 degrees.")
    ELSE LET leap == is_leap_year(year)
         IN  IF leap.status # "ok" THEN leap
             ELSE [status |-> "ok",
                   self |-> [latitude |-> latitude,
                             ndays |-> IF leap.value THEN 366 ELSE 365]]

\* Irradiance(latitude, year): the new object, or the exception
Irradiance_init(latitude, year) ==
    IF FLt(latitude, FromInt(-90)) \/ FGt(latitude, FromInt(90))
    THEN Raised("ValueError", "Latitude must be between -90 and 90 degrees.")
    ELSE LET leap == is_leap_year(year)
         IN  IF leap.status # "ok" THEN leap
             ELSE [status |-> "ok",
                   self |-> [latitude |-> latitude,
                             ndays |-> IF leap.value THEN 366 ELSE 365]]

\* A variant of declination_angle that refuses the last day of the year
declination_angle_last_day(self, day_of_year) ==
    IF day_of_year < 1 \/ day_of_year >= self.ndays
    THEN RaisedDay("declination_angle", day_of_year, self.ndays, <<"check">>)
    ELSE LET angle == FMul(FDiv(FromInt(360), FromInt(self.ndays)),
                           FromInt(284 + day_of_year))
         IN  Computed(FMul(23450, tf_sin(angle, TRUE)),
                      <<"check", "tf.sin">>)

declination_angle(self, day_of_year) ==
    IF day_of_year < 1 \/ day_of_year > self.ndays
    THEN RaisedDay("declination_angle", day_of_year, self.ndays, <<"check">>)
    ELSE LET angle == FMul(FDiv(FromInt(360), FromInt(self.ndays)),
                           FromInt(284 + day_of_year))
         IN  Computed(FMul(23450, tf_sin(angle, TRUE)),
                      <<"check", "tf.sin">>)

\* A variant of sunset_hour_angle that leaves the range check to
\* declination_angle
sunset_hour_angle_unchecked(self, day_of_year) ==
    LET delta == declination_angle(self, day_of_year)
        before == <<"declination_angle">>
    IN  IF delta.status # "ok" THEN Propagated(delta, before)
        ELSE Computed(
               np_arccos(FMul(FNeg(tf_tan(self.latitude, TRUE)),
                              tf_tan(delta.value, TRUE))),
               before \o delta.steps \o <<"tf.tan", "tf.tan", "np.arccos">>)

sunset_hour_angle(self, day_of_year) ==
    IF day_of_year < 1 \/ day_of_year > self.ndays
    THEN RaisedDay("sunset_hour_angle", day_of_year, self.ndays, <<"check">>)
    ELSE LET delta == declination_angle(self, day_of_year)
             before == <<"check", "declination_angle">>
         IN  IF delta.status # "ok" THEN Propagated(delta, before)
             ELSE Computed(
                    np_arccos(FMul(FNeg(tf_tan(self.latitude, TRUE)),
                                   tf_tan(delta.value, TRUE))),
                    before \o delta.steps \o <<"tf.tan", "tf.tan", "np.arccos">>)

earth_sun_distance(self, day_of_year) ==
    IF day_of_year < 1 \/ day_of_year > self.ndays
    THEN RaisedDay("earth_sun_distance", day_of_year, self.ndays, <<"check">>)
    ELSE LET X == FDiv(FMul(FMul(FromInt(2), np_pi), FromInt(day_of_year - 1)),
                       FromInt(self.ndays))
             X2 == FMul(FromInt(2), X)
         IN  Computed(
               FAdd(FAdd(FAdd(FAdd(1000,                       \* 1.000110
                                   FMul(342, tf_cos(X, TRUE))),   \* 0.34221
                              FMul(13, tf_sin(X, TRUE))),         \* 0.01280
                         FMul(1, tf_cos(X2, TRUE))),              \* 0.000719
                    FMul(0, tf_sin(X2, TRUE))),                   \* 0.000077
               <<"check", "tf.cos", "tf.sin", "tf.cos", "tf.sin">>)

extraterrestrial_solar_radiation(self, day_of_year) ==
    IF day_of_year < 1 \/ day_of_year > self.ndays
    THEN RaisedDay("extraterrestrial_solar_radiation", day_of_year,
                   self.ndays, <<"check">>)
    ELSE LET delta == declination_angle(self, day_of_year)
             s1 == <<"check", "declination_angle">>
             e0 == earth_sun_distance(self, day_of_year)
             s2 == s1 \o delta.steps \o <<"earth_sun_distance">>
             h == sunset_hour_angle(self, day_of_year)
             s3 == s2 \o e0.steps \o <<"sunset_hour_angle">>
         IN  IF delta.status # "ok" THEN Propagated(delta, s1)
             ELSE IF e0.status # "ok" THEN Propagated(e0, s2)
             ELSE IF h.status # "ok" THEN Propagated(h, s3)
             ELSE LET first_term ==
                        FMul(FMul(h.value, tf_sin(self.latitude, TRUE)),
                             tf_sin(delta.value, TRUE))
                      second_term ==
                        FMul(FMul(tf_cos(self.latitude, TRUE),
                                  tf_cos(delta.value, TRUE)),
                             np_sin(h.value))
                  IN  Computed(
                        FMul(FMul(37600, e0.value),
                             FAdd(first_term, second_term)),
                        s3 \o h.steps
                           \o <<"tf.sin", "tf.sin", "tf.cos", "tf.cos", "np.sin">>)

\* mj_per_m2 * 1000000 / 86400; the ratio is 625 / 54
to_watts_per_m2(mj_per_m2) == Returned(Ratio(mj_per_m2, 625, 54))

(***************************************************************************)
(* The state: one Irradiance object (or none yet), the arguments it was    *)
(* built from, and the last call with what it gave.                        *)
(***************************************************************************)
VARIABLES model, built, last

vars == <<model, built, last>>

NoObject == [made |-> FALSE]

Object(self) == [made |-> TRUE, latitude |-> self.latitude, ndays |-> self.ndays]

\* The inputs the calls are tried on.
DayMargin == 2

SampleDays == {81, 172, 355}

Days ==
    ((1 - DayMargin) .. (1 + DayMargin))
      \cup ((365 - DayMargin) .. (366 + DayMargin))
      \cup SampleDays

\* Latitudes in thousandths of a degree: -90.001, -90, -33.5, 0, 40, 90, 90.001
Latitudes == {-90001, -90000, -33500, 0, 40000, 90000, 90001}

Years == {-1, 0, 1900, 2000, 2020, 2021}

\* 0, 0.864 and 35 MJ/m^2
Radiations == {0, 864, 35000}

Init ==
    /\ model = NoObject
    /\ built = <<>>
    /\ last = [op |-> "none"]

\* Irradiance(latitude, year)
Construct(latitude, year) ==
    /\ model = NoObject
    /\ LET r == Irradiance_init(latitude, year)
       IN  /\ last' = [op |-> "Irradiance", args |-> <<latitude, year>>,
                       status |-> r.status]
           /\ IF r.status = "ok"
              THEN model' = Object(r.self) /\ built' = <<latitude, year>>
              ELSE UNCHANGED <<model, built>>

\* A variant of DeclinationAngle that keeps the day in the object
DeclinationAngle_storing(day_of_year) ==
    /\ model.made
    /\ last' = [op |-> "declination_angle", args |-> <<day_of_year>>,
                result |-> declination_angle(model, day_of_year)]
    /\ model' = [model EXCEPT !.ndays = day_of_year]
    /\ UNCHANGED built

\* model.declination_angle(day_of_year)
DeclinationAngle(day_of_year) ==
    /\ model.made
    /\ last' = [op |-> "declination_angle", args |-> <<day_of_year>>,
                result |-> declination_angle(model, day_of_year)]
    /\ UNCHANGED <<model, built>>

\* model.sunset_hour_angle(day_of_year)
SunsetHourAngle(day_of_year) ==
    /\ model.made
    /\ last' = [op |-> "sunset_hour_angle", args |-> <<day_of_year>>,
                result |-> sunset_hour_angle(model, day_of_year)]
    /\ UNCHANGED <<model, built>>

\* model.earth_sun_distance(day_of_year)
EarthSunDistance(day_of_year) ==
    /\ model.made
    /\ last' = [op |-> "earth_sun_distance", args |-> <<day_of_year>>,
                result |-> earth_sun_distance(model, day_of_year)]
    /\ UNCHANGED <<model, built>>

\* model.extraterrestrial_solar_radiation(day_of_year)
ExtraterrestrialSolarRadiation(day_of_year) ==
    /\ model.made
    /\ last' = [op |-> "extraterrestrial_solar_radiation",
                args |-> <<day_of_year>>,
                result |-> extraterrestrial_solar_radiation(model, day_of_year)]
    /\ UNCHANGED <<model, built>>

\* Irradiance.to_watts_per_m2(mj_per_m2), a static method
ToWattsPerM2(mj_per_m2) ==
    /\ last' = [op |-> "to_watts_per_m2", args |-> <<mj_per_m2>>,
                result |-> to_watts_per_m2(mj_per_m2)]
    /\ UNCHANGED <<model, built>>

Next ==
    \/ \E latitude \in Latitudes, year \in Years : Construct(latitude, year)
    \/ \E d \in Days : DeclinationAngle(d)
    \/ \E d \in Days : SunsetHourAngle(d)
    \/ \E d \in Days : EarthSunDistance(d)
    \/ \E d \in Days : ExtraterrestrialSolarRadiation(d)
    \/ \E x \in Radiations : ToWattsPerM2(x)

Spec == Init /\ [][Next]_vars

(***************************************************************************)
(* The leap-year rule on its own: is_leap_year(year)                       *)
(***************************************************************************)
MaxYear == 410

LeapYears == (-2 .. MaxYear) \cup {1900, 2000, 2020, 2021, 2023, 2024, 2100}

IsLeapYear(year) ==
    /\ last' = [op |-> "is_leap_year", args |-> <<year>>,
                result |-> is_leap_year(year)]
    /\ UNCHANGED <<model, built>>

NextLeap == \E year \in LeapYears : IsLeapYear(year)

SpecLeap == Init /\ [][NextLeap]_vars

(***************************************************************************)
(* The inverse reciprocal functions on their own                           *)
(***************************************************************************)
XRange == 4

\* -2.0, -1.5, ... 1.5, 2.0
Xs == {k * 500 : k \in -XRange .. XRange}

Arccot(x, xtype, angle_in_degrees) ==
    /\ last' = [op |-> "arccot", args |-> <<x, xtype, angle_in_degrees>>,
                result |-> tf_arccot(x, xtype, angle_in_degrees)]
    /\ UNCHANGED <<model, built>>

Arcsec(x, xtype, angle_in_degrees) ==
    /\ last' = [op |-> "arcsec", args |-> <<x, xtype, angle_in_degrees>>,
                result |-> tf_arcsec(x, xtype, angle_in_degrees)]
    /\ UNCHANGED <<model, built>>

Arccsc(x, xtype, angle_in_degrees) ==
    /\ last' = [op |-> "arccsc", args |-> <<x, xtype, angle_in_degrees>>,
                result |-> tf_arccsc(x, xtype, angle_in_degrees)]
    /\ UNCHANGED <<model, built>>

NextTrig ==
    \/ \E x \in Xs, t \in FloatTypes, deg \in BOOLEAN : Arccot(x, t, deg)
    \/ \E x \in Xs, t \in FloatTypes, deg \in BOOLEAN : Arcsec(x, t, deg)
    \/ \E x \in Xs, t \in FloatTypes, deg \in BOOLEAN : Arccsc(x, t, deg)

SpecTrig == Init /\ [][NextTrig]_vars

(***************************************************************************)
(* Properties                                                              *)
(***************************************************************************)
FormulaOps == {"declination_angle", "sunset_hour_angle", "earth_sun_distance",
               "extraterrestrial_solar_radiation"}

\* k divides n, for a natural n
Divides(k, n) == \E q \in 0 .. n : n = k * q

\* The Gregorian rule
Gregorian(year) ==
    Divides(4, year) /\ (~Divides(100, year) \/ Divides(400, year))

\* The day of the last formula call
LastDay == last.args[1]

\* C1: Irradiance(latitude, year) succeeds for -90 <= latitude <= 90 and
\* year >= 0, and raises ValueError for a latitude below -90 or above 90 and
\* for a year < 0; a failed construction leaves no object.
C1_Construction ==
    last.op = "Irradiance" =>
        LET latitude == last.args[1]
            year == last.args[2]
        IN  /\ (-90 * Scale <= latitude /\ latitude <= 90 * Scale /\ year >= 0)
                 => (last.status = "ok" /\ model.made)
            /\ (latitude < -90 * Scale \/ latitude > 90 * Scale \/ year < 0)
                 => (last.status = "ValueError" /\ model = NoObject)

C1_Witness ==
    /\ last.op = "Irradiance"
    /\ last.args = <<90 * Scale, -1>>
    /\ last.status = "ValueError"
    /\ model = NoObject

\* C2: a formula call with day_of_year < 1 or day_of_year > ndays raises
\* DayOfYearError carrying that day_of_year and the object's own ndays.
C2_DayOfYearError ==
    (last.op \in FormulaOps /\ (LastDay < 1 \/ LastDay > model.ndays)) =>
        /\ last.result.status = "DayOfYearError"
        /\ last.result.day_of_year = LastDay
        /\ last.result.ndays = model.ndays
        /\ model.ndays \in {365, 366}

C2_Witness ==
    /\ last.op = "extraterrestrial_solar_radiation"
    /\ LastDay = 367
    /\ model.ndays = 366
    /\ last.result.status = "DayOfYearError"
    /\ last.result.ndays = 366

\* C3: for year >= 0, is_leap_year(year) is true exactly when 4 divides year
\* and (100 does not or 400 does); 2000 and 2024 are leap, 1900 and 2023 not.
C3_LeapYear ==
    (last.op = "is_leap_year" /\ last.args[1] >= 0) =>
        /\ last.result.status = "ok"
        /\ last.result.value = Gregorian(last.args[1])
        /\ last.args[1] \in {2000, 2024} => last.result.value
        /\ last.args[1] \in {1900, 2023} => ~last.result.value

C3_Witness ==
    /\ last.op = "is_leap_year"
    /\ last.args[1] = 1900
    /\ last.result = Returned(FALSE)

\* The argument of the inverse cosine in sunset_hour_angle(day_of_year)
HourAngleCosine(self, day_of_year) ==
    FMul(FNeg(tf_tan(self.latitude, TRUE)),
         tf_tan(declination_angle(self, day_of_year).value, TRUE))

\* C4: sunset_hour_angle(d) is the leaf's arccos, in its default degree mode,
\* of -tan(latitude) * tan(delta): the inverse cosine converted to degrees.
C4_SunsetHourAngleInDegrees ==
    (last.op = "sunset_hour_angle" /\ last.result.status = "ok") =>
        last.result.value = tf_arccos(HourAngleCosine(model, LastDay), TRUE)

\* X = 2 * pi * (d - 1) / ndays
OrbitAngle(self, day_of_year) ==
    FDiv(FMul(FMul(FromInt(2), np_pi), FromInt(day_of_year - 1)),
         FromInt(self.ndays))

\* The series of earth_sun_distance with its four calls in radian mode
EarthSunDistanceRadians(X) ==
    FAdd(FAdd(FAdd(FAdd(1000, FMul(342, tf_cos(X, FALSE))),
                   FMul(13, tf_sin(X, FALSE))),
              FMul(1, tf_cos(FMul(FromInt(2), X), FALSE))),
         FMul(0, tf_sin(FMul(FromInt(2), X), FALSE)))

\* C5: earth_sun_distance(d) takes cos(X), sin(X), cos(2X) and sin(2X) in
\* radian mode: no degree-to-radian conversion is applied to X or 2X.
C5_EarthSunDistanceRadianMode ==
    (last.op = "earth_sun_distance" /\ last.result.status = "ok") =>
        last.result.value = EarthSunDistanceRadians(OrbitAngle(model, LastDay))

\* C6: in extraterrestrial_solar_radiation(d) the hour angle h is in degrees
\* and sin(h) is taken as the other calls take theirs: after h is converted
\* from degrees to radians.
C6_HourAngleSineInDegrees ==
    (last.op = "extraterrestrial_solar_radiation"
       /\ last.result.status = "ok") =>
        LET delta == declination_angle(model, LastDay).value
            e0 == earth_sun_distance(model, LastDay).value
            h == sunset_hour_angle(model, LastDay).value
            first_term == FMul(FMul(h, tf_sin(model.latitude, TRUE)),
                               tf_sin(delta, TRUE))
            second_term == FMul(FMul(tf_cos(model.latitude, TRUE),
                                     tf_cos(delta, TRUE)),
                                tf_sin(h, TRUE))
        IN  /\ h = tf_arccos(HourAngleCosine(model, LastDay), TRUE)
            /\ last.result.value
                 = FMul(FMul(37600, e0), FAdd(first_term, second_term))

\* C7: a formula call with 1 <= day_of_year <= ndays raises no
\* DayOfYearError; day 366 is accepted exactly when the year the object was
\* built for is a leap year, and is refused with bound 365 otherwise; for
\* Irradiance(0.0, 2020), declination_angle(366) succeeds and
\* declination_angle(367) is refused with bound 366.
C7_DayInRange ==
    last.op \in FormulaOps =>
        /\ (1 <= LastDay /\ LastDay <= model.ndays) => last.result.status = "ok"
        /\ LastDay = 366 =>
             /\ last.result.status = "ok" <=> Gregorian(built[2])
             /\ last.result.status # "ok" =>
                  (last.result.status = "DayOfYearError"
                     /\ last.result.ndays = 365)
        /\ (built = <<0, 2020>> /\ last.op = "declination_angle") =>
             /\ LastDay = 366 => last.result.status = "ok"
             /\ LastDay = 367 =>
                  (last.result.status = "DayOfYearError"
                     /\ last.result.ndays = 366)

C7_Witness ==
    /\ built = <<0, 2020>>
    /\ last.op = "declination_angle"
    /\ LastDay = 366
    /\ last.result.status = "ok"

\* C8: after construction and any calls, ndays is 365 or 366, and 366
\* exactly for a leap construction year, latitude is the constructor's
\* argument, and no call changes the object.
C8_ObjectState ==
    model.made =>
        /\ model.ndays \in {365, 366}
        /\ model.ndays = 366 <=> Gregorian(built[2])
        /\ model.latitude = built[1]

C8_ReadOnly ==
    /\ []C8_ObjectState
    /\ [][model.made => model' = model]_vars

C8_Witness ==
    /\ model.made
    /\ model.ndays = 366
    /\ built = <<40000, 2000>>
    /\ last.op = "extraterrestrial_solar_radiation"
    /\ last.result.status = "DayOfYearError"

\* C9: the range check is the first step of every formula call: an
\* out-of-range day raises DayOfYearError from the called method's own check,
\* before any trigonometric call and before any nested formula call.
C9_CheckFirst ==
    last.op \in FormulaOps =>
        /\ Head(last.result.steps) = "check"
        /\ (LastDay < 1 \/ LastDay > model.ndays) =>
             /\ last.result.status = "DayOfYearError"
             /\ last.result.steps = <<"check">>
             /\ last.result.raised_by = last.op

C9_Witness ==
    /\ last.op = "extraterrestrial_solar_radiation"
    /\ LastDay = 0
    /\ last.result.status = "DayOfYearError"
    /\ last.result.steps = <<"check">>

\* The base function each inverse reciprocal function rests on
BaseInverse(op, y, angle_in_degrees) ==
    CASE op = "arccot" -> tf_arctan(y, angle_in_degrees)
      [] op = "arcsec" -> tf_arccos(y, angle_in_degrees)
      [] op = "arccsc" -> tf_arcsin(y, angle_in_degrees)

InverseOps == {"arccot", "arcsec", "arccsc"}

\* C10 as stated: arccot, arcsec and arccsc of (x, degrees) are arctan,
\* arccos and arcsin of (1/x, degrees), and for x = 0 each raises a division
\* error in either flag setting.
C10_ZeroAlwaysRaises ==
    last.op \in InverseOps =>
        LET x == last.args[1]
            degrees == last.args[3]
        IN  /\ x # 0 =>
                 last.result
                   = Returned(BaseInverse(last.op, FDiv(FromInt(1), x), degrees))
            /\ x = 0 => last.result.status = "ZeroDivisionError"

\* C10 as amended: the same, but a zero raises ZeroDivisionError only when it
\* is a built-in float; a numpy.float64 zero gives 1/x = inf and the base
\* function's value there (90 degrees or pi/2 for arccot, nan for the others).
C10_InverseReciprocal ==
    last.op \in InverseOps =>
        LET x == last.args[1]
            xtype == last.args[2]
            degrees == last.args[3]
        IN  /\ x # 0 =>
                 last.result
                   = Returned(BaseInverse(last.op, FDiv(FromInt(1), x), degrees))
            /\ (x = 0 /\ xtype = "float") =>
                 last.result.status = "ZeroDivisionError"
            /\ (x = 0 /\ xtype = "numpy.float64") =>
                 /\ last.result = Returned(BaseInverse(last.op, PosInf, degrees))
                 /\ last.op = "arccot" =>
                      last.result.value
                        = (IF degrees THEN np_rad2deg(HalfPi) ELSE HalfPi)
                 /\ last.op # "arccot" => IsNaN(last.result.value)

C10_Witness ==
    /\ last.op = "arcsec"
    /\ last.args = <<0, "float", FALSE>>
    /\ last.result.status = "ZeroDivisionError"

=============================================================================
